---- MODULE Spec2Model ----
(***************************************************************************)
(* Operation construction and execution layer of TED                       *)
(* (services/database/operations/baseOperations.ts): BaseOperation and its *)
(* Save/Get/Remove variants, and BatchOperation with its create-table and  *)
(* retry recovery.                                                         *)
(***************************************************************************)
EXTENDS Integers, Sequences, FiniteSets, TLC

VARIABLES
  dbCore,      \* config.configuration.ted.dbCore
  core,        \* module-level `core`: "CQL", "SQL" or "undefined"
  createTable, \* module-level `createTable`: the family's table creation function
  tables,      \* backend: the tables that exist
  creating,    \* backend: tables whose (Keyspace) creation is still in progress
  op,          \* the standalone operation of the current request, or NoOp
  opCall,      \* the promise of op.execute(): none, pending, ok or error
  batch,       \* the BatchOperation of the current request, or NoBatch
  execCall,    \* the promise of batch.execute(): none, pending, ok or error
  sent,        \* the composed handle the pending/last batch backend call was made on
  creates,     \* createTable() promises of the fan-out: member position -> state
  createLog,   \* member positions createTable() was invoked on by the last execute
  doneLog,     \* member positions done() was invoked on by the last execute
  opDone,      \* number of done() invocations on the standalone operation
  orderCalls,  \* the calls op.execute() made to the external sorter: <<list, field>>
  named,       \* what the last op.buildTableName() call returned, or Nothing
  backendCalls,\* backend execute calls made since the last execute() began
  pc,          \* where batch.execute() is suspended: idle, backend or creating
  answer,      \* what the backend call of the last execute() settled with
  iterated,    \* members the last execute() iterated over after its backend call
  thrown       \* what the last synchronous call (constructor, push, build) threw

vars == <<dbCore, core, createTable, tables, creating, op, opCall, batch, execCall, sent,
          creates, createLog, doneLog, opDone, orderCalls, named, backendCalls, pc,
          answer, iterated, thrown>>

(***************************************************************************)
(* Bounds of the model.                                                    *)
(***************************************************************************)
MaxMembers == 3

(***************************************************************************)
(* Values.                                                                 *)
(***************************************************************************)
Undefined == "<undefined>"
NullTable == "<null>"
NullOperation == [type |-> "null"]
NoOp == [class |-> "none"]
NoBatch == [class |-> "none"]
NoCall == [state |-> "none"]
Pending == [state |-> "pending"]
NoHandle == [type |-> "none"]
Nothing == "nothing"

Min(a, b) == IF a < b THEN a ELSE b

\* A thrown `new Error(message)` of this module.
CoreError(message) ==
  [origin |-> "core", code |-> 0, hasMessage |-> TRUE, message |-> message]

\* A TypeError raised by the runtime (a method called on undefined).
TypeError ==
  [origin |-> "TypeError", code |-> 0, hasMessage |-> TRUE,
   message |-> "Cannot read property of undefined"]

tableCreationError ==
  [origin |-> "tableCreationError", code |-> 0, hasMessage |-> TRUE,
   message |-> "Table creation needed, canceling operation"]

Rejected(err) == [state |-> "error", err |-> err]
Resolved(res) == [state |-> "ok", res |-> res]

(***************************************************************************)
(* Backend selection at module load.                                       *)
(***************************************************************************)
DbCores == {"cassandra", "scylladb", "keyspace", "mongodb", "redis"}

\* Every known core taken for a CQL one.
Core_AllCQL(cfg) ==
  IF cfg \in {"cassandra", "scylladb", "keyspace", "mongodb"} THEN "CQL"
  ELSE "undefined"

Core(cfg) ==
  IF cfg \in {"cassandra", "scylladb", "keyspace"} THEN "CQL"
  ELSE IF cfg \in {"mongodb"} THEN "SQL"
  ELSE "undefined"

\* createTable = cqlCreateTable / sqlCreateTable
CreateTableOf(cfg) ==
  IF cfg \in {"cassandra", "scylladb", "keyspace"} THEN "cqlCreateTable"
  ELSE IF cfg \in {"mongodb"} THEN "sqlCreateTable"
  ELSE "undefined"

\* `else throw new Error("Unknown database core")`: the module does not load.
Loaded == core # "undefined"

(***************************************************************************)
(* BaseOperation: construction, entry building, table naming.              *)
(***************************************************************************)
\* collections[i] / documents[i] of a JavaScript array: undefined past the end.
At(arr, i) == IF i >= 1 /\ i <= Len(arr) THEN arr[i] ELSE "undefined"

EmptyEntry == <<>>

\* entry[key] = value
SetKey(entry, key, value) == (key :> value) @@ entry

\* The for loop of buildEntry, from (1-based) index i on.
RECURSIVE EntryLoop(_, _, _, _)
EntryLoop(collections, documents, i, entry) ==
  IF i > Len(documents) THEN entry
  ELSE EntryLoop(collections, documents, i + 1,
                 SetKey(entry, At(collections, i), documents[i]))

\* BaseOperation.buildEntry: nothing in the loop throws, so the catch is dead.
BaseBuildEntry(o) == EntryLoop(o.collections, o.documents, 1, EmptyEntry)

\* A save entry without the payload.
SaveBuildEntry_NoObject(o) == BaseBuildEntry(o)

\* SaveOperation.buildEntry
SaveBuildEntry(o) == SetKey(BaseBuildEntry(o), "object", o.object)

BuildEntry(o) == IF o.class = "Save" THEN SaveBuildEntry(o) ELSE BaseBuildEntry(o)

\* The for loop of buildTableName: res.push(collections[i]); res.push("_").
RECURSIVE NameLoop(_, _, _)
NameLoop(collections, i, res) ==
  IF i > Len(collections) THEN res
  ELSE NameLoop(collections, i + 1, res \o <<collections[i], "_">>)

\* The trailing separator kept.
DropLast_Nothing(res) == res

\* res.slice(0, -1)
DropLast(res) == IF Len(res) = 0 THEN res ELSE SubSeq(res, 1, Len(res) - 1)

\* res.join("")
RECURSIVE Join(_)
Join(res) == IF Len(res) = 0 THEN "" ELSE Head(res) \o Join(Tail(res))

\* The first collection name alone.
BuildTableName_FirstOnly(collections) == At(collections, 1)

BuildTableName(collections) == Join(DropLast(NameLoop(collections, 1, <<>>)))

\* A request (myTypes.InternalOperationDescription) as the constructors read it.
Request(action, collections, documents, encObject) ==
  [action |-> action, collections |-> collections, documents |-> documents,
   encObject |-> encObject]

\* BaseOperation's constructor.
NewBaseOperation(request) ==
  [class |-> "Base", action |-> request.action,
   collections |-> request.collections, documents |-> request.documents,
   canCreateTable |-> FALSE, operation |-> NullOperation, table |-> NullTable,
   object |-> Undefined]

\* What SaveOperation's constructor throws, or Nothing.
SaveConstructorError(request) ==
  IF Len(request.documents) # Len(request.collections)
    THEN "Invalid path length parity for a save operation"
  ELSE IF request.encObject = Undefined
    THEN "Missing field object for a save operation"
  ELSE Nothing

NewSaveOperation(request) ==
  [NewBaseOperation(request) EXCEPT
     !.class = "Save", !.action = "save", !.object = request.encObject]

\* GetOperation's constructor: the orderer exists only when an order was given.
NewGetOperation(request, pageToken, order) ==
  [NewBaseOperation(request) EXCEPT !.class = "Get", !.action = "get"]
    @@ [constResToken |-> pageToken, orderer |-> order]

NewRemoveOperation(request) ==
  [NewBaseOperation(request) EXCEPT !.class = "Remove", !.action = "remove"]

NewOperation(class, request) ==
  CASE class = "Save" -> NewSaveOperation(request)
    [] class = "Get" -> NewGetOperation(request, Undefined, Undefined)
    [] class = "Remove" -> NewRemoveOperation(request)
    [] OTHER -> NewBaseOperation(request)

ConstructorError(class, request) ==
  IF class = "Save" THEN SaveConstructorError(request) ELSE Nothing

\* The concrete subclasses (outside this file) resolve `table` from the path and
\* grant or withhold the permission to create it.
WithTable(o, canCreate) ==
  [o EXCEPT !.table = BuildTableName(o.collections), !.canCreateTable = canCreate]

\* buildOperation without its null-table check.
BuildOperationError_NoTableCheck(o) ==
  IF o.class = "Save" /\ o.object = Undefined THEN "Operation entry undefined"
  ELSE Nothing

\* What buildOperation throws for a Save, Get or Remove operation, or Nothing.
BuildOperationError(o) ==
  IF o.class = "Save" /\ o.object = Undefined THEN "Operation entry undefined"
  ELSE IF o.table = NullTable THEN "Undefined table"
  ELSE Nothing

\* The backend handle buildOperation stores: new CQL.../SQL...Operation({...}).
NewHandle(o) ==
  [type |-> core \o o.class \o "Operation", action |-> o.action,
   keys |-> BuildEntry(o), table |-> o.table]

\* Save/Get/RemoveOperation.buildOperation on operation o: the operation after it.
BuildOperation(o) ==
  IF BuildOperationError(o) # Nothing THEN o
  ELSE [o EXCEPT !.operation = NewHandle(o)]

(***************************************************************************)
(* GetOperation.execute: the token and ordering steps on the backend result.*)
(* A result is a record whose queryResults, and within it pageToken and     *)
(* allResultsEnc, are present or not (undefined).                           *)
(***************************************************************************)
Has(rec, field) == field \in DOMAIN rec

\* this.orderer.order(list, field) of utils/orderer: the same elements, sorted.
Order(order, list, field) ==
  IF order = "asc" THEN SortSeq(list, LAMBDA x, y : x < y)
  ELSE SortSeq(list, LAMBDA x, y : x > y)

\* this.collections.slice(-1)[0]
LastCollection(o) == At(o.collections, Len(o.collections))

\* The token stamped only where the backend returned none.
TokenStep_KeepBackend(o, res) ==
  IF o.constResToken # Undefined /\ Has(res, "queryResults")
     /\ ~Has(res.queryResults, "pageToken")
  THEN [res EXCEPT !.queryResults = SetKey(@, "pageToken", o.constResToken)]
  ELSE res

\* if (this.constResToken !== undefined && res.queryResults !== undefined)
TokenStep(o, res) ==
  IF o.constResToken # Undefined /\ Has(res, "queryResults")
  THEN [res EXCEPT !.queryResults = SetKey(@, "pageToken", o.constResToken)]
  ELSE res

\* The ordering step's condition with a test that the list is not empty.
OrderStepApplies_NonEmpty(o, res) ==
  /\ o.orderer # Undefined
  /\ Has(res, "queryResults")
  /\ Has(res.queryResults, "allResultsEnc")
  /\ res.queryResults.allResultsEnc # <<>>

\* if (this.orderer !== undefined && res.queryResults !== undefined
\*     && res.queryResults.allResultsEnc !== undefined)
OrderStepApplies(o, res) ==
  /\ o.orderer # Undefined
  /\ Has(res, "queryResults")
  /\ Has(res.queryResults, "allResultsEnc")

\* The calls made to the sorter on result res.
OrderCalls(o, res) ==
  IF OrderStepApplies(o, res)
  THEN << <<res.queryResults.allResultsEnc, LastCollection(o)>> >>
  ELSE <<>>

OrderStep(o, res) ==
  IF OrderStepApplies(o, res)
  THEN [res EXCEPT !.queryResults.allResultsEnc =
                      Order(o.orderer, @, LastCollection(o))]
  ELSE res

\* What execute() of operation o returns for the backend result res.
ExecuteResult(o, res) ==
  IF o.class = "Get" THEN OrderStep(o, TokenStep(o, res)) ELSE res

(***************************************************************************)
(* Backend errors and their classification in BatchOperation.execute.      *)
(***************************************************************************)
BackendError(code, hasMessage, message) ==
  [origin |-> "backend", code |-> code, hasMessage |-> hasMessage,
   message |-> message]

TableMissingCode == 8704
UnconfiguredPrefixLen == 18

\* str.substr(0, n)
Substr0(str, n) == SubSeq(str, 1, Min(n, Len(str)))

CharAt(str, i) == SubSeq(str, i, i)

\* The character class [a-zA-z_]: the range A-z also spans the six characters
\* between Z and a: brackets, backslash, caret, underscore and the backquote
\* (left out here: no message of the model holds one).
NameChars ==
  {"a", "b", "c", "d", "e", "f", "g", "h", "i", "j", "k", "l", "m", "n", "o",
   "p", "q", "r", "s", "t", "u", "v", "w", "x", "y", "z",
   "A", "B", "C", "D", "E", "F", "G", "H", "I", "J", "K", "L", "M", "N", "O",
   "P", "Q", "R", "S", "T", "U", "V", "W", "X", "Y", "Z",
   "[", "\\", "]", "^", "_"}

StartsAt(str, i, lit) ==
  /\ i + Len(lit) - 1 <= Len(str)
  /\ SubSeq(str, i, i + Len(lit) - 1) = lit

\* message.match(/^Collection ([a-zA-z_]*) does not exist./): some split of the
\* name makes the rest match; the final dot takes any one character but a newline.
MatchesCollectionMissing(message) ==
  LET head == "Collection "
      tail == " does not exist"
      name == Len(head) + 1
  IN /\ StartsAt(message, 1, head)
     /\ \E k \in 0..Len(message) :
          /\ \A j \in 0..(k - 1) :
               name + j <= Len(message) /\ CharAt(message, name + j) \in NameChars
          /\ StartsAt(message, name + k, tail)
          /\ name + k + Len(tail) <= Len(message)
          /\ CharAt(message, name + k + Len(tail)) # "\n"

\* The unconfigured-table prefix accepted with any code.
TableMissing_AnyCode(err) ==
  IF ~err.hasMessage THEN "throws"
  ELSE IF Substr0(err.message, UnconfiguredPrefixLen) = "unconfigured table"
    THEN "yes"
  ELSE IF MatchesCollectionMissing(err.message) THEN "yes" ELSE "no"

\* The condition of the catch handler: "yes", "no", or "throws" when a method is
\* called on an undefined message.
TableMissing(err) ==
  IF err.code = TableMissingCode
  THEN IF ~err.hasMessage THEN "throws"
       ELSE IF Substr0(err.message, UnconfiguredPrefixLen) = "unconfigured table"
         THEN "yes"
       ELSE IF MatchesCollectionMissing(err.message) THEN "yes" ELSE "no"
  ELSE IF ~err.hasMessage THEN "throws"
       ELSE IF MatchesCollectionMissing(err.message) THEN "yes" ELSE "no"

(***************************************************************************)
(* BatchOperation: construction, push, buildOperation.                     *)
(***************************************************************************)
CompositionError == "Batch cannot contain batch or get operations"

Positions(b) == 1..Len(b.operationsArray)

\* The constructor's check made on the first member only.
BatchConstructorError_FirstOnly(members) ==
  IF Len(members) >= 1 /\ members[1].action \in {"batch", "get"}
  THEN CompositionError ELSE Nothing

\* What BatchOperation's constructor throws, or Nothing.
BatchConstructorError(members) ==
  IF \E i \in 1..Len(members) : members[i].action \in {"batch", "get"}
  THEN CompositionError ELSE Nothing

NewBatchOperation(members, isolation) ==
  [class |-> "Batch", action |-> "batch", operationsArray |-> members,
   isolation |-> isolation, operation |-> NullOperation]

\* push's check with the batch action forgotten.
PushError_GetOnly(operation) ==
  IF operation.action \in {"get"} THEN CompositionError ELSE Nothing

\* What push throws, or Nothing.
PushError(operation) ==
  IF operation.action \in {"batch", "get"} THEN CompositionError ELSE Nothing

PushOperation(b, operation) ==
  [b EXCEPT !.operationsArray = Append(@, operation)]

\* buildOperation's null check made on the first member only.
BatchBuildError_FirstOnly(b) ==
  IF Len(b.operationsArray) >= 1 /\ b.operationsArray[1].operation = NullOperation
  THEN "Batch error, a base operation is not built" ELSE Nothing

\* What BatchOperation.buildOperation throws, or Nothing (both families alike).
BatchBuildError(b) ==
  IF \E i \in Positions(b) : b.operationsArray[i].operation = NullOperation
  THEN "Batch error, a base operation is not built" ELSE Nothing

\* new CQL/SQL BatchOperation(array) when isolated, new CQL/SQL OperationArray(array)
\* otherwise, over the members' handles in member order.
ComposedHandle(b) ==
  [type |-> core \o (IF b.isolation THEN "BatchOperation" ELSE "OperationArray"),
   operations |-> [i \in Positions(b) |-> b.operationsArray[i].operation]]

BatchBuildOperation(b) ==
  IF BatchBuildError(b) # Nothing THEN b
  ELSE [b EXCEPT !.operation = ComposedHandle(b)]

\* createAllTables without its canCreateTable test.
CreatablePositions_All(members, i) == [k \in 1..(Len(members) - i + 1) |-> k + i - 1]

\* The member positions createAllTables calls createTable() on, in call order.
RECURSIVE CreatablePositions(_, _)
CreatablePositions(members, i) ==
  IF i > Len(members) THEN <<>>
  ELSE (IF members[i].canCreateTable THEN <<i>> ELSE <<>>)
       \o CreatablePositions(members, i + 1)

\* done() called from the last member to the first.
DonePositions_Reversed(members) == [i \in 1..Len(members) |-> Len(members) + 1 - i]

\* The member positions operationsArray.map((op) => op.done()) calls done() on.
DonePositions(members) == [i \in 1..Len(members) |-> i]

Range(seq) == {seq[i] : i \in 1..Len(seq)}

(***************************************************************************)
(* The backend behind the handles (adapters/cql, adapters/sql).            *)
(***************************************************************************)
HandleTables(h) ==
  IF "operations" \in DOMAIN h
  THEN {h.operations[i].table : i \in DOMAIN h.operations}
  ELSE IF "table" \in DOMAIN h THEN {h.table}
  ELSE {}

\* The error a backend of the active family answers for a missing table.
MissingTableError(t) ==
  IF core = "CQL"
  THEN BackendError(TableMissingCode, TRUE, "unconfigured table " \o t)
  ELSE BackendError(26, TRUE, "Collection " \o t \o " does not exist.")

\* Other failures of a backend call. Of a CQL backend: the table-missing code
\* with another message, the table-missing message with another code. Of an SQL
\* backend: the collection message cut after "exist", the collection message
\* with no name and another last character. Of both: errors without a message.
OtherErrors ==
  (IF core = "CQL"
   THEN {BackendError(TableMissingCode, TRUE, "unconfigured keyspace ted"),
         BackendError(2200, TRUE, "unconfigured table a")}
   ELSE {BackendError(26, TRUE, "Collection a does not exist"),
         BackendError(26, TRUE, "Collection  does not exist!")})
  \cup {BackendError(TableMissingCode, FALSE, ""),
        BackendError(0, FALSE, "")}

\* What a successful call answers (myTypes.ServerAnswer).
Answers(h) ==
  IF "action" \in DOMAIN h /\ h.action = "get"
  THEN {[status |-> "success"],
        [status |-> "success", queryResults |-> [pageToken |-> "B"]],
        [status |-> "success", queryResults |-> [allResultsEnc |-> <<>>]],
        [status |-> "success",
         queryResults |-> [pageToken |-> "B", allResultsEnc |-> <<2, 1, 3>>]]}
  ELSE {[status |-> "success"]}

\* What execute() of handle h may settle with, given the tables that exist.
BackendOutcomes(h) ==
  { Rejected(e) : e \in OtherErrors }
  \cup (IF HandleTables(h) \subseteq tables
        THEN { Resolved(r) : r \in Answers(h) }
        ELSE { Rejected(MissingTableError(t)) : t \in HandleTables(h) \ tables })

CreateTableError ==
  [origin |-> "createTable", code |-> 0, hasMessage |-> TRUE,
   message |-> "table creation failed"]

(***************************************************************************)
(* Inputs.                                                                 *)
(***************************************************************************)
\* The paths of batch members, and the paths of standalone requests: the same,
\* a path that names one collection twice, two paths whose names hold the
\* separator, and a collection called "object".
BatchPaths == {<<"a">>, <<"a", "b">>}
CollectionPaths ==
  BatchPaths \cup {<<"a", "a">>, <<"a_b", "c">>, <<"a", "b_c">>, <<"object">>}
DocumentLists == {<<"d1">>, <<"d1", "d2">>}
Classes == {"Save", "Get", "Remove"}
PageTokens == {Undefined, "T"}
Orders == {Undefined, "asc"}

ClassAction(class) ==
  CASE class = "Save" -> "save" [] class = "Get" -> "get"
    [] class = "Remove" -> "remove" [] OTHER -> "batch"

\* The requests of a class: only a save request may carry an object.
Requests(class) ==
  { Request(ClassAction(class), c, d, e) :
      c \in CollectionPaths, d \in DocumentLists,
      e \in (IF class = "Save" THEN {Undefined, "enc"} ELSE {Undefined}) }

AllTables == { BuildTableName(c) : c \in BatchPaths }

Docs(collections) == [i \in 1..Len(collections) |-> IF i = 1 THEN "d1" ELSE "d2"]

\* An operation as a caller hands it to a batch: constructed, table resolved,
\* built or not.
Member(class, collections, canCreate, built) ==
  LET o == WithTable(
             NewOperation(class,
               Request(ClassAction(class), collections, Docs(collections), "enc")),
             canCreate)
  IN IF built THEN BuildOperation(o) ELSE o

\* The operations handed to a batch: a built save that may create its table, the
\* same save not built yet, a built remove that may not, a get, and an operation
\* whose action is batch.
MemberPool ==
  {Member("Save", <<"a">>, TRUE, TRUE),
   Member("Save", <<"a">>, TRUE, FALSE),
   Member("Remove", <<"a", "b">>, FALSE, TRUE),
   Member("Get", <<"a">>, FALSE, TRUE),
   Member("Base", <<"a">>, FALSE, TRUE)}

MemberLists == UNION { [1..n -> MemberPool] : n \in 0..MaxMembers }

(***************************************************************************)
(* Initial state: the module has been loaded against some configuration    *)
(* and some backend; no request has been made.                             *)
(***************************************************************************)
Init ==
  /\ dbCore \in DbCores
  /\ core = Core(dbCore)
  /\ createTable = CreateTableOf(dbCore)
  /\ tables \in SUBSET AllTables
  /\ creating = {}
  /\ op = NoOp
  /\ opCall = NoCall
  /\ batch = NoBatch
  /\ execCall = NoCall
  /\ sent = NoHandle
  /\ creates = <<>>
  /\ createLog = <<>>
  /\ doneLog = <<>>
  /\ opDone = 0
  /\ orderCalls = <<>>
  /\ named = Nothing
  /\ backendCalls = 0
  /\ pc = "idle"
  /\ answer = NoCall
  /\ iterated = 0
  /\ thrown = Nothing

backendVars == <<tables, creating>>
opVars == <<op, opCall, opDone, orderCalls, named>>
batchVars == <<batch, execCall, sent, creates, createLog, doneLog, pc, iterated>>
configVars == <<dbCore, core, createTable>>

(***************************************************************************)
(* A standalone Save, Get or Remove operation.                             *)
(***************************************************************************)
\* new SaveOperation(request), new GetOperation(request), new RemoveOperation(request)
NewOp ==
  /\ Loaded /\ op = NoOp /\ batch = NoBatch
  /\ \E class \in Classes : \E request \in Requests(class) :
     \E pageToken \in (IF class = "Get" THEN PageTokens ELSE {Undefined}) :
     \E order \in (IF class = "Get" THEN Orders ELSE {Undefined}) :
       /\ thrown' = ConstructorError(class, request)
       /\ op' = IF ConstructorError(class, request) # Nothing THEN op
                ELSE IF class = "Get" THEN NewGetOperation(request, pageToken, order)
                ELSE NewOperation(class, request)
  /\ UNCHANGED <<configVars, backendVars, batchVars, opCall, opDone, orderCalls,
                 named, backendCalls, answer>>

\* The concrete subclass resolves the table of the operation.
ResolveTable ==
  /\ op # NoOp /\ op.table = NullTable /\ opCall # Pending
  /\ \E canCreate \in BOOLEAN : op' = WithTable(op, canCreate)
  /\ UNCHANGED <<configVars, backendVars, batchVars, opCall, opDone, orderCalls,
                 named, backendCalls, answer, thrown>>

\* op.buildTableName(), called by anyone holding the operation.
OpBuildTableName ==
  /\ op # NoOp /\ opCall # Pending
  /\ named' = BuildTableName(op.collections)
  /\ thrown' = Nothing
  /\ UNCHANGED <<configVars, backendVars, batchVars, op, opCall, opDone,
                 orderCalls, backendCalls, answer>>

\* op.buildOperation()
OpBuildOperation ==
  /\ op # NoOp /\ opCall # Pending
  /\ thrown' = BuildOperationError(op)
  /\ op' = BuildOperation(op)
  /\ UNCHANGED <<configVars, backendVars, batchVars, opCall, opDone, orderCalls,
                 named, backendCalls, answer>>

NotBuiltError == CoreError("unable to execute CQL operation, query not built")

\* op.execute() up to its suspension on the backend call.
OpExecute ==
  /\ op # NoOp /\ opCall # Pending
  /\ IF op.operation = NullOperation
     THEN /\ opCall' = Rejected(NotBuiltError)
          /\ sent' = NoHandle
          /\ backendCalls' = 0
     ELSE /\ opCall' = Pending
          /\ sent' = op.operation
          /\ backendCalls' = 1
  /\ answer' = NoCall
  /\ orderCalls' = <<>>
  /\ UNCHANGED <<configVars, backendVars, op, opDone, named, batch, execCall,
                 creates, createLog, doneLog, pc, iterated, thrown>>

\* The backend call of op.execute() settles, and execute() with it.
OpBackendReply ==
  /\ op # NoOp /\ opCall = Pending
  /\ \E outcome \in BackendOutcomes(sent) :
       /\ answer' = outcome
       /\ IF outcome.state = "ok"
          THEN /\ opCall' = Resolved(ExecuteResult(op, outcome.res))
               /\ orderCalls' = IF op.class = "Get" THEN OrderCalls(op, outcome.res)
                                ELSE <<>>
          ELSE /\ opCall' = outcome
               /\ UNCHANGED orderCalls
  /\ UNCHANGED <<configVars, backendVars, op, opDone, named, batchVars,
                 backendCalls, thrown>>

(***************************************************************************)
(* A batch.                                                                *)
(***************************************************************************)
\* new BatchOperation(members, isolation)
Construct(members, isolation) ==
  /\ thrown' = BatchConstructorError(members)
  /\ batch' = IF BatchConstructorError(members) # Nothing THEN batch
              ELSE NewBatchOperation(members, isolation)

NewBatch ==
  /\ Loaded /\ op = NoOp /\ batch = NoBatch
  /\ \E members \in MemberLists : \E isolation \in BOOLEAN :
       Construct(members, isolation)
  /\ UNCHANGED <<configVars, backendVars, opVars, execCall, sent, creates,
                 createLog, doneLog, pc, backendCalls, answer, iterated>>

\* batch.push(operation); the caller may call it while execute() is suspended.
PushCall(operation) ==
  /\ thrown' = PushError(operation)
  /\ batch' = IF PushError(operation) # Nothing THEN batch
              ELSE PushOperation(batch, operation)

Push ==
  /\ batch # NoBatch /\ Len(batch.operationsArray) < MaxMembers
  /\ \E operation \in MemberPool : PushCall(operation)
  /\ UNCHANGED <<configVars, backendVars, opVars, execCall, sent, creates,
                 createLog, doneLog, pc, backendCalls, answer, iterated>>

\* buildOperation() of member k, called by its owner before the batch runs.
BuildMember ==
  /\ batch # NoBatch /\ pc = "idle"
  /\ \E k \in Positions(batch) :
       /\ batch.operationsArray[k].operation = NullOperation
       /\ thrown' = BuildOperationError(batch.operationsArray[k])
       /\ batch' = [batch EXCEPT !.operationsArray[k] = BuildOperation(@)]
  /\ UNCHANGED <<configVars, backendVars, opVars, execCall, sent, creates,
                 createLog, doneLog, pc, backendCalls, answer, iterated>>

\* No createTable() of an earlier execute() is still in flight (execute() is
\* called again only once they have settled).
NoCreatePending == \A k \in DOMAIN creates : creates[k] # "pending"

BatchNotBuiltError == "Error in batch, operation not built"

\* What batch.execute() throws before it reaches the backend, or Nothing.
ExecuteBuildError(b) ==
  IF BatchBuildError(b) # Nothing THEN BatchBuildError(b)
  ELSE IF BatchBuildOperation(b).operation = NullOperation THEN BatchNotBuiltError
  ELSE Nothing

\* One backend call for the composed handle and one more for every member.
BackendCallsOfExecute_PerMember(b) == 1 + Len(b.operationsArray)

\* The backend calls of execute(): `await this.operation.execute()`, once.
BackendCallsOfExecute(b) == 1

\* batch.execute() up to its suspension on the backend call: buildOperation(),
\* the null check, this.operation.execute().
BatchExecute ==
  /\ batch # NoBatch /\ pc = "idle" /\ NoCreatePending
  /\ createLog' = <<>>
  /\ doneLog' = <<>>
  /\ creates' = <<>>
  /\ answer' = NoCall
  /\ iterated' = 0
  /\ IF ExecuteBuildError(batch) # Nothing
     THEN /\ execCall' = Rejected(CoreError(ExecuteBuildError(batch)))
          /\ sent' = NoHandle
          /\ backendCalls' = 0
          /\ UNCHANGED <<batch, pc>>
     ELSE /\ batch' = BatchBuildOperation(batch)
          /\ sent' = BatchBuildOperation(batch).operation
          /\ backendCalls' = BackendCallsOfExecute(batch)
          /\ execCall' = Pending
          /\ pc' = "backend"
  /\ UNCHANGED <<configVars, backendVars, opVars, thrown>>

\* The promise execute() settles with when every createTable() of the fan-out has
\* resolved.
AfterCreateAllTables == Rejected(tableCreationError)

\* Promise.race in place of Promise.all: settled by the first createTable().
FanOutOutcome_Race(states) ==
  IF \E k \in DOMAIN states : states[k] = "failed" THEN Rejected(CreateTableError)
  ELSE IF \A k \in DOMAIN states : states[k] = "pending" THEN Pending
  ELSE AfterCreateAllTables

\* Promise.allSettled in place of Promise.all: failures are not propagated.
FanOutOutcome_AllSettled(states) ==
  IF \E k \in DOMAIN states : states[k] = "pending" THEN Pending
  ELSE AfterCreateAllTables

\* The promise Promise.all settles execute() with, given the states of the
\* createTable() promises: pending while none failed and some is pending.
FanOutOutcome(states) ==
  IF \E k \in DOMAIN states : states[k] = "failed" THEN Rejected(CreateTableError)
  ELSE IF \E k \in DOMAIN states : states[k] = "pending" THEN Pending
  ELSE AfterCreateAllTables

\* The positions the catch handler's createAllTables() starts createTable() on.
CreateAllTablesCalls(b) == CreatablePositions(b.operationsArray, 1)

\* done() called twice on every member.
DoneCalls_Twice(b) ==
  DonePositions(b.operationsArray) \o DonePositions(b.operationsArray)

\* The positions done() is called on after the backend call succeeded.
DoneCalls(b) == DonePositions(b.operationsArray)

\* The backend call of batch.execute() settles: the catch handler and what
\* follows the await.
BatchBackendReply ==
  /\ batch # NoBatch /\ pc = "backend"
  /\ \E outcome \in BackendOutcomes(sent) :
       /\ answer' = outcome
       /\ IF outcome.state = "ok"
          THEN /\ doneLog' = DoneCalls(batch)
               /\ iterated' = Len(batch.operationsArray)
               /\ execCall' = outcome
               /\ pc' = "idle"
               /\ UNCHANGED <<creates, createLog>>
          ELSE IF TableMissing(outcome.err) = "throws"
          THEN /\ execCall' = Rejected(TypeError)
               /\ pc' = "idle"
               /\ UNCHANGED <<creates, createLog, doneLog, iterated>>
          ELSE IF TableMissing(outcome.err) = "no"
          THEN /\ execCall' = outcome
               /\ pc' = "idle"
               /\ UNCHANGED <<creates, createLog, doneLog, iterated>>
          ELSE LET calls == CreateAllTablesCalls(batch)
                   started == [k \in Range(calls) |-> "pending"]
               IN /\ createLog' = calls
                  /\ iterated' = Len(batch.operationsArray)
                  /\ creates' = started
                  /\ execCall' = FanOutOutcome(started)
                  /\ pc' = IF FanOutOutcome(started) = Pending THEN "creating" ELSE "idle"
                  /\ UNCHANGED doneLog
  /\ UNCHANGED <<configVars, backendVars, opVars, batch, sent, backendCalls, thrown>>

\* createTable() of member k settles; Promise.all and execute() settle with it
\* when it fails or was the last one pending.
CreateTableReply ==
  /\ batch # NoBatch
  /\ \E k \in DOMAIN creates : \E ok \in BOOLEAN :
       /\ creates[k] = "pending"
       /\ LET t == batch.operationsArray[k].table
              after == [creates EXCEPT ![k] = IF ok THEN "ok" ELSE "failed"]
          IN /\ creates' = after
             /\ IF ~ok \/ t \in tables THEN UNCHANGED backendVars
                ELSE IF dbCore = "keyspace"
                  THEN creating' = creating \cup {t} /\ UNCHANGED tables
                ELSE tables' = tables \cup {t} /\ UNCHANGED creating
             /\ IF pc = "creating"
                THEN /\ execCall' = FanOutOutcome(after)
                     /\ pc' = IF FanOutOutcome(after) = Pending THEN "creating"
                              ELSE "idle"
                ELSE UNCHANGED <<execCall, pc>>
  /\ UNCHANGED <<configVars, opVars, batch, sent, createLog, doneLog, backendCalls,
                 answer, iterated, thrown>>

\* Keyspace finishes creating a table some time after createTable() resolved.
TableReady ==
  /\ \E t \in creating :
       /\ tables' = tables \cup {t}
       /\ creating' = creating \ {t}
  /\ UNCHANGED <<configVars, opVars, batchVars, backendCalls, answer, thrown>>

Next ==
  \/ NewOp
  \/ ResolveTable
  \/ OpBuildTableName
  \/ OpBuildOperation
  \/ OpExecute
  \/ OpBackendReply
  \/ NewBatch
  \/ Push
  \/ BuildMember
  \/ BatchExecute
  \/ BatchBackendReply
  \/ CreateTableReply
  \/ TableReady

Spec == Init /\ [][Next]_vars

(***************************************************************************)
(* Properties.                                                             *)
(***************************************************************************)
\* The table-missing classification as the design states it: the code 8704 with
\* the message prefix "unconfigured table", or the "Collection ... does not
\* exist" pattern.
IsTableMissingError(err) ==
  /\ err.hasMessage
  /\ \/ err.code = 8704 /\ StartsAt(err.message, 1, "unconfigured table")
     \/ MatchesCollectionMissing(err.message)

Count(seq, x) == Cardinality({i \in 1..Len(seq) : seq[i] = x})

Members == batch.operationsArray

\* The batch's backend call failed with a table-missing error.
FailedTableMissing ==
  /\ batch # NoBatch
  /\ answer.state = "error"
  /\ IsTableMissingError(answer.err)

\* createTable() was invoked once on every creatable member execute() iterated
\* over, and on no other.
CreatedExactlyTheCreatable ==
  /\ \A k \in 1..iterated :
       Count(createLog, k) = IF Members[k].canCreateTable THEN 1 ELSE 0
  /\ Range(createLog) \subseteq 1..iterated

\* C1 as stated: after a table-missing failure, createTable() has been invoked
\* exactly once on every creatable member and on no other, and execute() fails
\* with the retry sentinel.
C1_Original ==
  (FailedTableMissing /\ pc = "idle") =>
    /\ CreatedExactlyTheCreatable
    /\ execCall = Rejected(tableCreationError)

\* C1 as amended: after a table-missing failure, createTable() has been invoked
\* exactly once on every creatable member and on no other; execute() then fails
\* with the retry sentinel when no createTable() call failed, and with the
\* failure of the createTable() call otherwise.
C1_FanOutThenSentinel ==
  FailedTableMissing =>
    /\ CreatedExactlyTheCreatable
    /\ pc = "idle" =>
         execCall = IF \E k \in DOMAIN creates : creates[k] = "failed"
                    THEN Rejected(CreateTableError)
                    ELSE Rejected(tableCreationError)

\* Three members, two of them creatable: two createTable() calls, then the sentinel.
C1_Witness ==
  /\ FailedTableMissing
  /\ iterated = 3
  /\ Len(createLog) = 2
  /\ Cardinality({k \in 1..3 : Members[k].canCreateTable}) = 2
  /\ execCall = Rejected(tableCreationError)

\* C2: a backend error that is not table-missing (another code, another message,
\* no message at all) causes no createTable() call and execute() fails with that
\* very error.
C2_OtherErrorsVerbatim ==
  (/\ batch # NoBatch
   /\ pc = "idle"
   /\ answer.state = "error"
   /\ ~IsTableMissingError(answer.err)) =>
    /\ createLog = <<>>
    /\ execCall = answer

C4_DoneInOrderOnSuccess ==
  batch # NoBatch =>
    IF answer.state = "ok"
    THEN /\ doneLog = [i \in 1..iterated |-> i]
         /\ iterated >= Len(sent.operations)
         /\ execCall = answer
    ELSE doneLog = <<>>

C4_Witness ==
  /\ batch # NoBatch
  /\ answer.state = "ok"
  /\ doneLog = <<1, 2, 3>>
  /\ execCall = answer

\* C5: the createTable() calls of all creatable members are started together;
\* the sentinel is raised only when every one of them has resolved; when one
\* fails, execute() fails with that failure, not with the sentinel.
C5_FanOutAllOrFailure ==
  FailedTableMissing =>
    /\ DOMAIN creates = {k \in 1..iterated : Members[k].canCreateTable}
    /\ execCall = Rejected(tableCreationError) =>
         \A k \in DOMAIN creates : creates[k] = "ok"
    /\ (\E k \in DOMAIN creates : creates[k] = "failed") =>
         execCall = Rejected(CreateTableError)
    /\ (\A k \in DOMAIN creates : creates[k] = "pending") =>
         execCall = IF creates = <<>> THEN Rejected(tableCreationError) ELSE Pending

\* One createTable() failed while another was still pending: execute() has
\* already failed with that failure.
C5_Witness ==
  /\ FailedTableMissing
  /\ \E k \in DOMAIN creates : creates[k] = "failed"
  /\ \E k \in DOMAIN creates : creates[k] = "pending"
  /\ execCall = Rejected(CreateTableError)

HasGetOrBatch(members) ==
  \E i \in 1..Len(members) : members[i].action \in {"get", "batch"}

\* C6: constructing a batch from a list of one or more members that holds a get
\* or batch operation, at any position and with either isolation flag, throws
\* the composition error and yields no batch: a step that does anything else is
\* the construction of no such list.
C6_ConstructorRejectsGetAndBatch ==
  [][(Loaded /\ op = NoOp /\ batch = NoBatch) =>
       \/ batch' = NoBatch /\ thrown' = CompositionError
       \/ \A members \in MemberLists : \A isolation \in BOOLEAN :
            ~(Len(members) >= 1 /\ HasGetOrBatch(members)
                /\ Construct(members, isolation))]_vars

\* A construction has just failed with the composition error.
C6_Witness ==
  /\ batch = NoBatch /\ op = NoOp
  /\ thrown = CompositionError

\* C7: push appends a save or remove operation at the end of the member list;
\* it throws the composition error and leaves the list as it was for a get or
\* batch operation; so no member of a batch ever has action get or batch.
C7_PushKeepsComposition ==
  [][/\ (batch # NoBatch /\ Len(batch.operationsArray) < MaxMembers) =>
          \A operation \in MemberPool :
            PushCall(operation) =>
              IF operation.action \in {"save", "remove"}
              THEN /\ batch'.operationsArray
                        = batch.operationsArray \o <<operation>>
                   /\ thrown' = Nothing
              ELSE /\ batch' = batch
                   /\ thrown' = CompositionError
     /\ batch' # NoBatch => ~HasGetOrBatch(batch'.operationsArray)]_vars

\* A push was rejected on a batch that had grown by a push since it was sent.
C7_Witness ==
  /\ batch # NoBatch
  /\ thrown = CompositionError
  /\ sent # NoHandle
  /\ Len(Members) > Len(sent.operations)
  /\ \E k \in 1..Len(Members) : Members[k].action = "remove"
  /\ \E k \in 1..Len(Members) : Members[k].action = "save"

NotBuiltMember == \E k \in 1..Len(Members) : Members[k].operation = NullOperation

\* C8: when some member is not built at the call of execute(), execute() fails
\* with the "not built" error, makes no backend call and invokes neither
\* createTable() nor done().
C8_UnbuiltMemberFailsEarly ==
  [][(batch # NoBatch /\ NotBuiltMember /\ BatchExecute) =>
       /\ execCall' = Rejected(CoreError("Batch error, a base operation is not built"))
       /\ backendCalls' = 0
       /\ sent' = NoHandle
       /\ pc' = "idle"
       /\ createLog' = <<>> /\ creates' = <<>>
       /\ doneLog' = <<>>]_vars

C8_Witness ==
  /\ batch # NoBatch /\ NotBuiltMember
  /\ Len(Members) = 3
  /\ Members[1].operation # NullOperation
  /\ execCall = Rejected(CoreError("Batch error, a base operation is not built"))
  /\ backendCalls = 0

BuildErrors == {"Undefined table", "Operation entry undefined"}

\* C9: for a Save, Get or Remove operation, buildOperation() with a null table
\* throws and leaves the handle null; execute() with a null handle fails with
\* the "not built" error and makes no backend call.
C9_BuildAndExecuteNeedTheirInputs ==
  [][/\ (op # NoOp /\ op.table = NullTable /\ OpBuildOperation) =>
          /\ thrown' \in BuildErrors
          /\ op'.operation = NullOperation
     /\ (op # NoOp /\ op.operation = NullOperation /\ OpExecute) =>
          /\ opCall' = Rejected(NotBuiltError)
          /\ backendCalls' = 0
          /\ sent' = NoHandle
          /\ answer' = NoCall]_vars

C9_Witness ==
  /\ op # NoOp /\ op.table = NullTable /\ op.operation = NullOperation
  /\ thrown = "Undefined table"
  /\ opCall = Rejected(NotBuiltError)

\* C10 as stated: done() is invoked exactly once on an operation whose execution
\* succeeded, as a member of a batch or standalone.
C10_Original ==
  /\ (batch # NoBatch /\ answer.state = "ok") =>
       \A k \in 1..iterated : Count(doneLog, k) = 1
  /\ (op # NoOp /\ opCall.state = "ok") => opDone = 1

\* C10 as amended: a successful execute() of a batch invokes done() exactly once
\* on each member; a failed one invokes it on none; the execute() of a standalone
\* operation never invokes done().
C10_DoneOncePerBatchExecute ==
  /\ batch # NoBatch =>
       /\ \A k \in 1..Len(Members) :
            Count(doneLog, k) = IF answer.state = "ok" /\ k <= iterated THEN 1 ELSE 0
       /\ Len(doneLog) = IF answer.state = "ok" THEN iterated ELSE 0
       /\ answer.state = "ok" => iterated >= Len(sent.operations)
  /\ op # NoOp => opDone = 0

\* A batch of three members has succeeded.
C10_Witness ==
  /\ batch # NoBatch /\ answer.state = "ok" /\ execCall.state = "ok"
  /\ iterated = 3
  /\ \A k \in 1..3 : Count(doneLog, k) = 1

(***************************************************************************)
(* Entry building and table naming.                                        *)
(***************************************************************************)
Built(o) == o # NoOp /\ o.operation # NullOperation

\* C11: no backend handle is ever built for an operation whose collections and
\* documents lists differ in length, whatever its kind and whichever list is
\* the longer.
C11_NoHandleFromUnequalLists ==
  (op # NoOp /\ Len(op.documents) # Len(op.collections)) => ~Built(op)

\* The collection names of the path are pairwise distinct, and none of a save's
\* is the name of the payload entry.
DistinctNames(o) ==
  /\ \A i, j \in 1..Len(o.collections) :
       i # j => o.collections[i] # o.collections[j]
  /\ o.class = "Save" => \A i \in 1..Len(o.collections) : o.collections[i] # "object"

\* The entry maps every collection of the path to its document and has one entry
\* per collection, and one more, "object", holding the payload of a save.
EntryMapsPath(o, entry) ==
  /\ \A i \in 1..Len(o.collections) :
       /\ o.collections[i] \in DOMAIN entry
       /\ entry[o.collections[i]] = o.documents[i]
  /\ Cardinality(DOMAIN entry)
       = Len(o.collections) + (IF o.class = "Save" THEN 1 ELSE 0)
  /\ o.class = "Save" => "object" \in DOMAIN entry /\ entry["object"] = o.object

\* C12 as stated: the entry of every built operation with lists of equal length
\* maps each collection to its document, with exactly one entry per collection
\* (and the payload entry of a save).
C12_Original ==
  (Built(op) /\ Len(op.collections) = Len(op.documents)) =>
    EntryMapsPath(op, op.operation.keys)

\* C12 as amended: the same, for paths whose collection names are pairwise
\* distinct and, for a save, differ from "object".
C12_EntryMapsPathToDocuments ==
  (Built(op) /\ Len(op.collections) = Len(op.documents) /\ DistinctNames(op)) =>
    EntryMapsPath(op, op.operation.keys)

\* A save on a two-collection path has been built: three entries.
C12_Witness ==
  /\ Built(op) /\ op.class = "Save"
  /\ op.collections = <<"a", "b">>
  /\ Cardinality(DOMAIN op.operation.keys) = 3

\* The names of path p with one "_" between consecutive names.
RECURSIVE JoinedPath(_)
JoinedPath(p) ==
  IF Len(p) = 1 THEN p[1] ELSE p[1] \o "_" \o JoinedPath(Tail(p))

NoSeparator(p) ==
  \A i \in 1..Len(p) : \A k \in 1..Len(p[i]) : CharAt(p[i], k) # "_"

\* C14 as stated: no other path of the same length has the table name that
\* buildTableName() returned for the operation's path.
C14_Original ==
  (op # NoOp /\ named # Nothing) =>
    \A p \in CollectionPaths :
      (Len(p) = Len(op.collections) /\ p # op.collections) =>
        BuildTableName(p) # named

\* C14 as amended: the same, among paths none of whose names holds a "_".
C14_InjectiveWithoutSeparator ==
  (op # NoOp /\ named # Nothing /\ NoSeparator(op.collections)) =>
    \A p \in CollectionPaths :
      (Len(p) = Len(op.collections) /\ p # op.collections /\ NoSeparator(p)) =>
        BuildTableName(p) # named

\* buildTableName() has returned the name of a separator-free path of two
\* collections, of which the inputs hold another.
C14_Witness ==
  /\ op # NoOp /\ op.collections = <<"a", "b">>
  /\ named = "a_b"
  /\ \E p \in CollectionPaths :
       Len(p) = 2 /\ p # op.collections /\ NoSeparator(p)

(***************************************************************************)
(* GetOperation.execute.                                                   *)
(***************************************************************************)
\* execute() of a get operation has returned the result of its backend call.
GetReturned ==
  /\ op # NoOp /\ op.class = "Get"
  /\ opCall.state = "ok" /\ answer.state = "ok"

HasList(res) ==
  Has(res, "queryResults") /\ Has(res.queryResults, "allResultsEnc")

\* The result but for its raw result list.
WithoutList(res) ==
  IF HasList(res)
  THEN [res EXCEPT !.queryResults =
          [f \in DOMAIN @ \ {"allResultsEnc"} |-> @[f]]]
  ELSE res

\* C15: the result of a get constructed with a token carries that token as
\* queryResults.pageToken whenever the backend result has a queryResults,
\* whatever token the backend returned; without a token, or without
\* queryResults, the token step leaves the backend result as it was.
C15_TokenOverwritesBackendToken ==
  GetReturned =>
    LET res == opCall.res
        raw == answer.res
    IN /\ (op.constResToken # Undefined /\ Has(raw, "queryResults")) =>
            /\ Has(res, "queryResults") /\ Has(res.queryResults, "pageToken")
            /\ res.queryResults.pageToken = op.constResToken
       /\ ~Has(raw, "queryResults") => res = raw
       /\ op.constResToken = Undefined => WithoutList(res) = WithoutList(raw)

\* A get constructed with the token "T" returned "T" where the backend had
\* answered the token "B".
C15_Witness ==
  /\ GetReturned
  /\ op.constResToken = "T"
  /\ Has(answer.res, "queryResults") /\ Has(answer.res.queryResults, "pageToken")
  /\ answer.res.queryResults.pageToken = "B"
  /\ opCall.res.queryResults.pageToken = "T"

\* The sorter was called once, on the raw list of the backend with the last
\* collection of the path, or not at all and the raw list is the backend's.
SorterCalledOnRawListOrNotAtAll ==
  /\ orderCalls # <<>> =>
       orderCalls = << <<answer.res.queryResults.allResultsEnc,
                         op.collections[Len(op.collections)]>> >>
  /\ orderCalls = <<>> =>
       /\ HasList(opCall.res) = HasList(answer.res)
       /\ HasList(answer.res) =>
            opCall.res.queryResults.allResultsEnc
              = answer.res.queryResults.allResultsEnc

\* C19 as stated: the sorter is called exactly when an ordering was given and
\* the backend result carries a non-empty raw result list.
C19_Original ==
  GetReturned =>
    /\ orderCalls # <<>> <=>
         /\ op.orderer # Undefined
         /\ HasList(answer.res)
         /\ answer.res.queryResults.allResultsEnc # <<>>
    /\ SorterCalledOnRawListOrNotAtAll

\* C19 as amended: the sorter is called exactly when an ordering was given and
\* the backend result carries a raw result list, empty or not.
C19_SorterCalledOnEveryList ==
  GetReturned =>
    /\ orderCalls # <<>> <=> (op.orderer # Undefined /\ HasList(answer.res))
    /\ SorterCalledOnRawListOrNotAtAll

\* A get on the path a/b with an ordering had its three results sorted by "b".
C19_Witness ==
  /\ GetReturned
  /\ op.collections = <<"a", "b">>
  /\ orderCalls = << << <<2, 1, 3>>, "b" >> >>
  /\ opCall.res.queryResults.allResultsEnc = <<1, 2, 3>>

(***************************************************************************)
(* Backend selection.                                                      *)
(***************************************************************************)
\* The family a handle belongs to: the prefix of its adapter class.
Family(h) == SubSeq(h.type, 1, 3)

\* Every backend handle that exists: of the standalone operation, of the members
\* of the batch, the composed handle and its parts, and the handle sent last.
Handles ==
  (IF Built(op) THEN {op.operation} ELSE {})
  \cup (IF batch = NoBatch THEN {}
        ELSE {Members[k].operation : k \in {i \in Positions(batch) :
                                             Members[i].operation # NullOperation}})
  \cup (IF batch = NoBatch \/ batch.operation = NullOperation THEN {}
        ELSE {batch.operation} \cup Range(batch.operation.operations))
  \cup (IF sent = NoHandle THEN {}
        ELSE IF Has(sent, "operations") THEN {sent} \cup Range(sent.operations)
        ELSE {sent})

FamilyResolvedAtLoad ==
  /\ dbCore \in {"cassandra", "scylladb", "keyspace"} =>
       core = "CQL" /\ createTable = "cqlCreateTable"
  /\ dbCore = "mongodb" => core = "SQL" /\ createTable = "sqlCreateTable"
  /\ dbCore \notin {"cassandra", "scylladb", "keyspace", "mongodb"} =>
       ~Loaded /\ op = NoOp /\ batch = NoBatch /\ Handles = {}
  /\ \A h \in Handles : Family(h) = core

\* C16: the family follows from dbCore as the module load decides it, a module
\* that met an unknown dbCore never runs an operation, no step changes the
\* family, and every handle belongs to it.
C16_FamilyFixedAtLoad ==
  /\ []FamilyResolvedAtLoad
  /\ [][core' = core /\ createTable' = createTable]_vars

\* Under mongodb a batch of two members was sent as one SQL batch handle.
C16_Witness ==
  /\ dbCore = "mongodb"
  /\ sent # NoHandle /\ sent.type = "SQLBatchOperation"
  /\ Len(sent.operations) = 2
  /\ \A h \in Handles : Family(h) = "SQL"

(***************************************************************************)
(* Classification of backend errors.                                       *)
(***************************************************************************)
\* The message starts with "Collection <name> does not exist" and goes on for
\* at least one more character, <name> being a run of the characters the
\* pattern admits in a name.
ClaimedCollectionMissing(message) ==
  \E n \in 0..Len(message) :
    LET name == SubSeq(message, 12, 11 + n)
        start == "Collection " \o name \o " does not exist"
    IN /\ 11 + n <= Len(message)
       /\ \A k \in 1..n : CharAt(name, k) \in NameChars
       /\ StartsAt(message, 1, start)
       /\ Len(message) > Len(start)

ClaimedTableMissing(err) ==
  /\ err.hasMessage
  /\ \/ err.code = 8704 /\ StartsAt(err.message, 1, "unconfigured table")
     \/ ClaimedCollectionMissing(err.message)

\* execute() took the recovery path: the fan-out is pending, or it settled
\* execute() with the sentinel or with the failure of a createTable().
RecoveryTaken ==
  \/ pc = "creating"
  \/ execCall \in {Rejected(tableCreationError), Rejected(CreateTableError)}

OneCallOnComposedHandle ==
  /\ backendCalls' = 1
  /\ sent' # NoHandle /\ Has(sent', "operations")
  /\ Len(sent'.operations) = Len(Members)
  /\ \A i \in 1..Len(Members) : sent'.operations[i] = Members[i].operation
  /\ sent'.type \in (IF batch.isolation
                     THEN {"CQLBatchOperation", "SQLBatchOperation"}
                     ELSE {"CQLOperationArray", "SQLOperationArray"})

\* C18 as stated: every call of execute() makes exactly one backend call, on the
\* composed handle, and none while it is suspended.
C18_Original ==
  [][/\ (batch # NoBatch /\ BatchExecute) => OneCallOnComposedHandle
     /\ (batch # NoBatch /\ pc # "idle") =>
          (backendCalls' = backendCalls /\ sent' = sent)]_vars

\* C18 as amended: a call of execute() on a batch whose members are all built
\* makes exactly one backend call, on the composed handle; a call on a batch
\* with an unbuilt member makes none; no call is made while it is suspended.
C18_OneCallWhenBuilt ==
  [][/\ (batch # NoBatch /\ BatchExecute) =>
          IF NotBuiltMember THEN backendCalls' = 0 /\ sent' = NoHandle
          ELSE OneCallOnComposedHandle
     /\ (batch # NoBatch /\ pc # "idle") =>
          (backendCalls' = backendCalls /\ sent' = sent)]_vars

\* A batch of three members without isolation succeeded after one call on an
\* operation array of three handles.
C18_Witness ==
  /\ batch # NoBatch /\ ~batch.isolation
  /\ execCall.state = "ok"
  /\ backendCalls = 1
  /\ sent # NoHandle /\ Len(sent.operations) = 3
  /\ sent.type \in {"CQLOperationArray", "SQLOperationArray"}

(***************************************************************************)
(* push() while execute() is suspended.                                    *)
(***************************************************************************)
\* C20: every member on which execute() invoked done() or createTable() is a
\* member whose handle was part of the composed handle this execute() sent.
C20_OnlySentMembersTouched ==
  (batch # NoBatch /\ sent # NoHandle) =>
    \A k \in Range(doneLog) \cup Range(createLog) :
      /\ k \in DOMAIN sent.operations
      /\ Members[k].operation = sent.operations[k]
====
